---- MODULE Spec2Model ----
(***************************************************************************)
(* Shopping-scrape upload: the workbook orchestrator (main.py), the layout *)
(* transformers (utils/data_processing.py) and the duplicate-aware batch   *)
(* loader (database/models.py), as one state machine.                      *)
(***************************************************************************)
EXTENDS Integers, Sequences, FiniteSets, TLC

(***************************************************************************)
(* Bounds of the model                                                     *)
(***************************************************************************)
MaxSheets == 2      \* sheets per workbook
MaxFaults == 1      \* failures of the file reader or the database per behaviour
MaxRows == 2        \* rows of a sheet handed to a transformer on its own

(***************************************************************************)
(* Program constants                                                       *)
(***************************************************************************)
\* main.py:63 sets BATCH_SIZE = 100; the model chunks by 2 so that a sheet of
\* three records already spans two batches.
BATCH_SIZE == 2
\* data_processing.py:155, range(1, 15): the stop value of the slot loop
SlotRangeStop == 15
\* the number of product slots a row may carry (Product1..Product15)
NumSlots == 15

(***************************************************************************)
(* Cells.  pandas hands every cell over as NaN (blank), a str or a native  *)
(* datetime; one record shape carries the three so that cells compare.     *)
(***************************************************************************)
NaN == [k |-> "nan", s |-> "", d |-> "", t |-> "", n |-> 0]
Str(x) == [k |-> "str", s |-> x, d |-> "", t |-> "", n |-> 0]
Dt(day, time) == [k |-> "dt", s |-> "", d |-> day, t |-> time, n |-> 0]
Num(x) == [k |-> "num", s |-> "", d |-> "", t |-> "", n |-> x]
\* a native bool, kept as 1 or 0
Bool(b) == [k |-> "bool", s |-> "", d |-> "", t |-> "", n |-> IF b THEN 1 ELSE 0]

isna(c) == c.k = "nan"
notna(c) == ~isna(c)

\* calendar days and times of day that occur in the model
Day1 == "2024-03-01"
Day2 == "2024-03-02"
Midnight == "00:00:00"
Noon == "12:00:00"

\* datetime.strptime(s, fmt) on the date literals of the model: the day it
\* parses to, or "" for ValueError
strptime(s, fmt) ==
    CASE fmt = "%Y-%m-%d" /\ s = "2024-03-01" -> Day1
      [] fmt = "%Y-%m-%d" /\ s = "2024-03-02" -> Day2
      [] fmt = "%d/%m/%Y" /\ s = "01/03/2024" -> Day1
      [] fmt = "%d/%m/%Y" /\ s = "02/03/2024" -> Day2
      [] OTHER -> ""

\* datetime.isoformat(): "<date>T<time>", kept as its two parts
isoformat(dt) == [date |-> dt.d, time |-> dt.t]

\* re.match(r'(\d{4}-\d{2}-\d{2})', date_str).group(1): the first ten characters
DatePart(scrape_date) == scrape_date.date

\* str(cell), also what an f-string makes of a cell
str(c) ==
    CASE c.k = "str" -> c.s
      [] c.k = "num" -> ToString(c.n)
      [] c.k = "dt" -> c.d \o " " \o c.t
      [] OTHER -> "nan"

\* int(float(cell)) of line 289: the integer in a one-element set, or {} when
\* float() raises ValueError
int_float(c) ==
    CASE c.k = "num" -> {c.n}
      [] c.k = "str" /\ c.s \in {"1", "1.0"} -> {1}
      [] c.k = "str" /\ c.s \in {"2", "2.0"} -> {2}
      [] OTHER -> {}

\* str.lower() and str.strip() on the literals of the model
lower(s) ==
    CASE s = "TRUE" -> "true"
      [] s = " Yes " -> " yes "
      [] s = "No" -> "no"
      [] OTHER -> s

strip(s) ==
    CASE s = " yes " -> "yes"
      [] s = " Yes " -> "Yes"
      [] OTHER -> s

\* clean_to_bool: the bool in a one-element set, or {} for None
clean_to_bool(value) ==
    CASE isna(value) -> {}
      [] value.k = "bool" -> {value.n = 1}
      [] value.k = "num" -> {value.n # 0}
      [] value.k = "str" ->
            IF strip(lower(value.s)) \in {"true", "t", "yes", "y", "1", "1.0"} THEN {TRUE}
            ELSE IF strip(lower(value.s)) \in {"false", "f", "no", "n", "0", "0.0"} THEN {FALSE}
            ELSE {}
      [] OTHER -> {}

\* lines 292-299: what the record's field becomes for a non-blank cell of
\* is_carousel or has_product_page, {} when no branch assigns it
OptionalBool(value) ==
    CASE value.k = "bool" -> {value.n = 1}
      [] value.k = "str" -> {lower(value.s) \in {"true", "t", "yes", "y", "1"}}
      [] value.k = "num" -> {value.n # 0}
      [] OTHER -> {}

(***************************************************************************)
(* Sheets: a name, the DataFrame's columns and its rows (column -> cell).  *)
(***************************************************************************)
row_get(sheet, row, col, default) ==
    IF col \in sheet.columns THEN row[col] ELSE default

SlotName(i) ==
    CASE i = 1 -> "Product1_"
      [] i = 2 -> "Product2_"
      [] i = 14 -> "Product14_"
      [] i = 15 -> "Product15_"
      [] OTHER -> "Product" \o ToString(i) \o "_"

\* the columns Product<N>_Title and Product<N>_Link, N in 1..NumSlots
GridColumns ==
    {SlotName(i) \o "Title" : i \in 1..NumSlots} \cup
    {SlotName(i) \o "Link" : i \in 1..NumSlots}

\* col.startswith('Product'), on the column names of the model
startswith_Product(col) ==
    col \in GridColumns \cup {"ProductX_Title", "Product_Name"}

\* '_Title' in col or '_Link' in col, on the column names of the model
has_Title_or_Link(col) ==
    col \in GridColumns \cup {"ProductX_Title", "Page_Title"}

\* lines 130 and 325
IsShoppingGrid(columns) ==
    \E col \in columns : startswith_Product(col) /\ has_Title_or_Link(col)

\* the row's date as lines 140-150 and 243-253 resolve it: a datetime cell, or
\* scrape_date itself (which need not be a datetime)
RowDate(sheet, row, scrape_date) ==
    LET row_date == row_get(sheet, row, "Date", scrape_date)
    IN  IF row_date.k = "str"
          THEN IF strptime(row_date.s, "%Y-%m-%d") # ""
                 THEN Dt(strptime(row_date.s, "%Y-%m-%d"), Midnight)
               ELSE IF strptime(row_date.s, "%d/%m/%Y") # ""
                 THEN Dt(strptime(row_date.s, "%d/%m/%Y"), Midnight)
               ELSE scrape_date
        ELSE IF row_date.k # "dt" THEN scrape_date
        ELSE row_date

\* str(uuid.uuid4()): the n-th identifier generated since the program started
uuid4(n) == "uuid-" \o ToString(n)

\* the elements of a set of integers in ascending order
RECURSIVE Ascending(_)
Ascending(S) ==
    IF S = {} THEN <<>>
    ELSE LET m == CHOOSE x \in S : \A y \in S : x <= y
         IN  <<m>> \o Ascending(S \ {m})

\* Python truthiness of a cell used as a condition (NaN is a non-zero float)
Truthy(c) ==
    CASE c.k = "str" -> c.s # ""
      [] c.k = "num" -> c.n # 0
      [] OTHER -> TRUE

(***************************************************************************)
(* transform_shopping_grid_data                                             *)
(***************************************************************************)
\* the slots of a row that pass the test of lines 164-165
GridSlotsOfRow(sheet, row) ==
    {i \in 1..(SlotRangeStop - 1) :
        /\ (SlotName(i) \o "Title") \in sheet.columns
        /\ (SlotName(i) \o "Link") \in sheet.columns
        /\ notna(row[SlotName(i) \o "Title"])
        /\ notna(row[SlotName(i) \o "Link"])}

\* (row index, slot) of every record the two loops emit, in emission order
RECURSIVE GridHits(_, _)
GridHits(sheet, idx) ==
    IF idx > Len(sheet.rows) THEN <<>>
    ELSE LET slots == Ascending(GridSlotsOfRow(sheet, sheet.rows[idx]))
         IN  [k \in 1..Len(slots) |-> <<idx, slots[k]>>] \o GridHits(sheet, idx + 1)

GridRecord(sheet, hit, keyword, scrape_date, campaign_id, scrape_type_id, product_id) ==
    LET row == sheet.rows[hit[1]]
        i == hit[2]
        query == row_get(sheet, row, "Query", keyword)
    IN  [campaign_id |-> campaign_id,
         scrape_type_id |-> scrape_type_id,
         scrape_date |-> isoformat(RowDate(sheet, row, scrape_date)),
         keyword |-> IF Truthy(query) THEN query ELSE keyword,
         product_id |-> product_id,
         title |-> str(row[SlotName(i) \o "Title"]),
         link |-> str(row[SlotName(i) \o "Link"]),
         position |-> {i}]

\* result of a transformer: the records, or raised = TRUE when row_date.isoformat()
\* is reached with a row_date that is not a datetime (AttributeError)
transform_shopping_grid_data(sheet, keyword, scrape_date, campaign_id, scrape_type_id, uuidBase) ==
    IF ~IsShoppingGrid(sheet.columns) THEN [raised |-> FALSE, records |-> <<>>]
    ELSE LET hits == GridHits(sheet, 1)
         IN  IF \E k \in 1..Len(hits) :
                    RowDate(sheet, sheet.rows[hits[k][1]], scrape_date).k # "dt"
               THEN [raised |-> TRUE, records |-> <<>>]
               ELSE [raised |-> FALSE,
                     records |-> [k \in 1..Len(hits) |->
                        GridRecord(sheet, hits[k], keyword, scrape_date,
                                   campaign_id, scrape_type_id, uuid4(uuidBase + k))]]

(***************************************************************************)
(* transform_product_scraper_data                                           *)
(***************************************************************************)
\* indexes of the rows that pass line 239, in order
ValidRows(sheet) ==
    SelectSeq([idx \in 1..Len(sheet.rows) |-> idx],
              LAMBDA idx : ~(isna(sheet.rows[idx]["id"]) \/ isna(sheet.rows[idx]["title"])))

ProductRecord(sheet, row, keyword, scrape_date, campaign_id, scrape_type_id) ==
    LET product_id == str(row["id"])
    IN  [campaign_id |-> campaign_id,
         scrape_type_id |-> scrape_type_id,
         scrape_date |-> isoformat(RowDate(sheet, row, scrape_date)),
         keyword |-> keyword,
         product_id |-> product_id,
         title |-> str(row["title"]),
         link |-> IF "link" \in sheet.columns /\ ~isna(row["link"])
                    THEN str(row["link"])
                    ELSE "https://example.com/product/" \o product_id,
         position |-> IF "position" \in sheet.columns /\ ~isna(row["position"])
                        THEN int_float(row["position"])
                        ELSE {},
         is_carousel |-> IF "is_carousel" \in sheet.columns /\ ~isna(row["is_carousel"])
                           THEN OptionalBool(row["is_carousel"])
                           ELSE {},
         has_product_page |->
            IF "has_product_page" \in sheet.columns /\ ~isna(row["has_product_page"])
              THEN OptionalBool(row["has_product_page"])
              ELSE {}]

transform_product_scraper_data(sheet, keyword, scrape_date, campaign_id, scrape_type_id) ==
    IF ~({"id", "title"} \subseteq sheet.columns) THEN [raised |-> FALSE, records |-> <<>>]
    ELSE LET valid == ValidRows(sheet)
         IN  IF \E k \in 1..Len(valid) :
                    RowDate(sheet, sheet.rows[valid[k]], scrape_date).k # "dt"
               THEN [raised |-> TRUE, records |-> <<>>]
               ELSE [raised |-> FALSE,
                     records |-> [k \in 1..Len(valid) |->
                        ProductRecord(sheet, sheet.rows[valid[k]], keyword, scrape_date,
                                      campaign_id, scrape_type_id)]]

(***************************************************************************)
(* detect_and_transform_data                                                *)
(***************************************************************************)
\* a copy whose generated link column is blank
df_with_link_blank(sheet) ==
    [sheet EXCEPT
        !.columns = @ \cup {"link"},
        !.rows = [idx \in 1..Len(sheet.rows) |->
                    [col \in sheet.columns \cup {"link"} |->
                        IF col = "link" THEN Str("") ELSE sheet.rows[idx][col]]]]

\* lines 339-343: the copy of the sheet with a generated link column
df_with_link(sheet) ==
    [sheet EXCEPT
        !.columns = @ \cup {"link"},
        !.rows = [idx \in 1..Len(sheet.rows) |->
                    [col \in sheet.columns \cup {"link"} |->
                        IF col = "link"
                          THEN Str("https://example.com/product/" \o str(sheet.rows[idx]["id"]))
                          ELSE sheet.rows[idx][col]]]]

\* the layout the chain of tests at lines 325, 329, 333 selects
DetectLayout(columns) ==
    IF IsShoppingGrid(columns) THEN "ShoppingGrid"
    ELSE IF {"id", "title", "link"} \subseteq columns THEN "ProductStandard"
    ELSE IF {"position", "title", "id"} \subseteq columns /\ "link" \notin columns
      THEN "ProductPositionNoLink"
    ELSE "Unrecognized"

detect_and_transform_data(sheet, keyword, scrape_date, campaign_id, scrape_type_id, uuidBase) ==
    CASE DetectLayout(sheet.columns) = "ShoppingGrid" ->
            transform_shopping_grid_data(sheet, keyword, scrape_date,
                                         campaign_id, scrape_type_id, uuidBase)
      [] DetectLayout(sheet.columns) = "ProductStandard" ->
            transform_product_scraper_data(sheet, keyword, scrape_date,
                                           campaign_id, scrape_type_id)
      [] DetectLayout(sheet.columns) = "ProductPositionNoLink" ->
            transform_product_scraper_data(df_with_link(sheet), keyword, scrape_date,
                                           campaign_id, scrape_type_id)
      [] OTHER -> [raised |-> FALSE, records |-> <<>>]

(***************************************************************************)
(* The store: the rows of scrape_data.  A connection's transaction is the  *)
(* committed rows plus the rows inserted since the last commit/rollback.   *)
(***************************************************************************)
\* the row an INSERT of the record creates; the text column keyword receives a
\* float NaN as the text 'NaN'
StoredRow(record, id) ==
    [id |-> id,
     campaign_id |-> record.campaign_id,
     scrape_type_id |-> record.scrape_type_id,
     scrape_date |-> record.scrape_date,
     keyword |-> IF isna(record.keyword) THEN Str("NaN") ELSE record.keyword,
     product_id |-> record.product_id,
     title |-> record.title,
     link |-> record.link,
     position |-> record.position]

\* a fetch that returns scrape_date uncast
SqlDate_uncast(ts) == ts.date \o " " \o ts.time

\* DATE(scrape_date), and str() of the date the driver returns
SqlDate(ts) == ts.date

\* rows the cursor has inserted by the time k records went through line 235;
\* ids number the rows in the order they are committed
InsertedRows(records, firstId, k) ==
    {StoredRow(records[j], firstId + j - 1) : j \in 1..k}

\* a commit that never reaches the store
Commit_lost(committed, pending) == committed

\* conn.commit()
Commit(committed, pending) == committed \cup pending

\* a rollback that leaves the executed inserts in place
Rollback_keeps(committed, pending) == committed \cup pending

\* conn.rollback()
Rollback(committed, pending) == committed

(***************************************************************************)
(* batch_insert_scrape_data                                                 *)
(***************************************************************************)
\* a probe that finds no row
CountExisting_none(rows, batch) == 0

\* line 89-90: SELECT COUNT(*) FROM scrape_data WHERE campaign_id = ...
CountExisting(rows, batch) ==
    Cardinality({r \in rows : r.campaign_id = batch[1].campaign_id})

\* lines 104-155: the rows the fetch returns
ExistingRecords(rows, batch) ==
    LET campaign_ids == {batch[j].campaign_id : j \in 1..Len(batch)}
        scrape_type_ids == {batch[j].scrape_type_id : j \in 1..Len(batch)}
        keywords == {batch[j].keyword : j \in 1..Len(batch)}
        dates_list == {DatePart(batch[j].scrape_date) : j \in 1..Len(batch)}
    IN  {r \in rows :
            /\ r.campaign_id \in campaign_ids
            /\ r.scrape_type_id \in scrape_type_ids
            /\ r.keyword \in keywords
            /\ (dates_list # {} => SqlDate(r.scrape_date) \in dates_list)}

\* the keyword list of the fetch holds a float NaN: it is sent as a double
\* precision array, which the text column cannot be compared with, and
\* cur.execute raises
FetchRaises(batch) == \E j \in 1..Len(batch) : isna(batch[j].keyword)

\* lines 158-181
product_id_set(existing) ==
    {<<rec.campaign_id, rec.scrape_type_id, SqlDate(rec.scrape_date),
       rec.keyword, rec.product_id>> : rec \in existing}

title_link_set(existing) ==
    {<<rec.campaign_id, rec.scrape_type_id, SqlDate(rec.scrape_date),
       rec.keyword, rec.title, rec.link>> : rec \in existing}

\* lines 198-214
product_key(record) ==
    <<record.campaign_id, record.scrape_type_id, DatePart(record.scrape_date),
      record.keyword, record.product_id>>

title_link_key(record) ==
    <<record.campaign_id, record.scrape_type_id, DatePart(record.scrape_date),
      record.keyword, record.title, record.link>>

\* a test that looks at the product key only
NotDuplicate_product_only(record, existing) ==
    product_key(record) \notin product_id_set(existing)

\* line 217
NotDuplicate(record, existing) ==
    /\ product_key(record) \notin product_id_set(existing)
    /\ title_link_key(record) \notin title_link_set(existing)

\* a loader without the existence probe
EffectiveForce_no_probe(rows, batch, force_upload) == force_upload

\* lines 88-95: the value of force_upload after the existence probe
EffectiveForce(rows, batch, force_upload) ==
    force_upload \/ CountExisting(rows, batch) = 0

\* lines 98-220
RecordsToInsert(rows, batch, force) ==
    IF force THEN batch
    ELSE SelectSeq(batch, LAMBDA record : NotDuplicate(record, ExistingRecords(rows, batch)))

\* Faults of the connection during one call: none, a statement before the
\* inserts (probe or fetch), or the first or the last INSERT of n.
NoFault == [at |-> "none", k |-> 0]
Faults(n) ==
    {NoFault, [at |-> "query", k |-> 0]} \cup {[at |-> "insert", k |-> k] : k \in {1, n}}

\* the call as a whole: what it returns or raises, and the store it leaves
batch_insert_scrape_data(rows, firstId, batch, force_upload, fault) ==
    LET force == EffectiveForce(rows, batch, force_upload)
        queryFails == \/ (~force_upload /\ fault.at = "query")
                      \/ (~force /\ FetchRaises(batch))
        records_to_insert == RecordsToInsert(rows, batch, force)
        n == Len(records_to_insert)
        done == IF fault.at = "insert" /\ fault.k <= n THEN fault.k - 1 ELSE n
        pending == InsertedRows(records_to_insert, firstId, done)
        raised == queryFails \/ (fault.at = "insert" /\ fault.k <= n)
    IN  IF batch = <<>>
          THEN [raised |-> FALSE, checked |-> FALSE, message |-> "",
                rows |-> rows, nextId |-> firstId, inserted |-> {}, executed |-> 0]
        ELSE IF queryFails
          THEN [raised |-> TRUE, checked |-> FALSE, message |-> "query failed",
                rows |-> Rollback(rows, {}), nextId |-> firstId,
                inserted |-> {}, executed |-> 0]
        ELSE IF raised
          THEN [raised |-> TRUE, checked |-> ~force, message |-> "insert failed",
                rows |-> Rollback(rows, pending), nextId |-> firstId,
                inserted |-> {}, executed |-> done]
        ELSE [raised |-> FALSE, checked |-> ~force, message |-> "",
              rows |-> Commit(rows, pending), nextId |-> firstId + done,
              inserted |-> pending, executed |-> done]

(***************************************************************************)
(* Workbooks of the model                                                  *)
(***************************************************************************)
P1T == "Product1_Title"
P1L == "Product1_Link"
P2T == "Product2_Title"
P2L == "Product2_Link"

Sheet(name, columns, rows) == [name |-> name, columns |-> columns, rows |-> rows]

SheetPool ==
    << \* the two-slot grid, one product per row, no Date column
       Sheet("kwA", {P1T, P1L, P2T, P2L},
             << (P1T :> Str("t1") @@ P1L :> Str("l1") @@ P2T :> NaN @@ P2L :> NaN),
                (P1T :> NaN @@ P1L :> NaN @@ P2T :> Str("t2") @@ P2L :> Str("l2")) >>),
       \* a grid of three records; the third repeats the first's title and link
       Sheet("kwB", {"Date", "Query", P1T, P1L, P2T, P2L},
             << ("Date" :> Dt(Day1, Midnight) @@ "Query" :> Str("kwA") @@
                 P1T :> Str("t1") @@ P1L :> Str("l1") @@ P2T :> Str("t2") @@ P2L :> Str("l2")),
                ("Date" :> Str("01/03/2024") @@ "Query" :> Str("kwA") @@
                 P1T :> Str("t1") @@ P1L :> Str("l1") @@ P2T :> NaN @@ P2L :> NaN) >>),
       \* a grid whose Query cell is blank
       Sheet("kwC", {"Query", P1T, P1L},
             << ("Query" :> NaN @@ P1T :> Str("t1") @@ P1L :> Str("l1")) >>),
       \* a grid whose first Date is a string and whose second Date is blank
       Sheet("kwD", {"Date", P1T, P1L},
             << ("Date" :> Str("2024-03-01") @@ P1T :> Str("t1") @@ P1L :> Str("l1")),
                ("Date" :> NaN @@ P1T :> Str("t2") @@ P1L :> Str("l2")) >>),
       \* product rows; the second repeats the first's id, the third its title and link
       Sheet("kwA", {"id", "title", "link"},
             << ("id" :> Str("id1") @@ "title" :> Str("t1") @@ "link" :> Str("l1")),
                ("id" :> Str("id1") @@ "title" :> Str("t2") @@ "link" :> Str("l2")),
                ("id" :> Str("id2") @@ "title" :> Str("t1") @@ "link" :> Str("l1")) >>),
       \* no known layout
       Sheet("kwG", {"foo", "bar"},
             << ("foo" :> Str("a") @@ "bar" :> Str("b")) >>),
       \* no rows
       Sheet("kwH", {"id", "title", "link"}, << >>),
       \* a sheet the skip list of scrape type 2 names
       Sheet("Output", {"id", "title", "link"},
             << ("id" :> Str("id1") @@ "title" :> Str("t1") @@ "link" :> Str("l1")) >>),
       \* sheets every skip list names; each has a row that would load
       Sheet("Keywords", {"id", "title", "link"},
             << ("id" :> Str("id7") @@ "title" :> Str("t7") @@ "link" :> Str("l7")) >>),
       Sheet("Aggregated Results", {"id", "title", "link"},
             << ("id" :> Str("id8") @@ "title" :> Str("t8") @@ "link" :> Str("l8")) >>),
       Sheet("Error Logs", {"id", "title", "link"},
             << ("id" :> Str("id9") @@ "title" :> Str("t9") @@ "link" :> Str("l9")) >>) >>

\* the sheets of the pool that hold scraped data under some scrape type
DataSheets ==
    {k \in 1..Len(SheetPool) :
        SheetPool[k].name \notin {"Keywords", "Aggregated Results", "Error Logs"}}

\* the workbooks: up to MaxSheets sheets of the pool with distinct names, in
\* pool order, each sheet named by its index in the pool
Workbooks ==
    {Ascending(S) : S \in {T \in SUBSET DataSheets :
        /\ Cardinality(T) \in 1..MaxSheets
        /\ \A a, b \in T : a # b => SheetPool[a].name # SheetPool[b].name}}

\* a datetime.now() of the model: noon of the day the invocation runs on
Nows == {Dt(Day1, Noon), Dt(Day2, Noon)}

\* (campaign_id, scrape_type_id) selections of the model
Selections == {<<1, 1>>, <<1, 2>>, <<2, 1>>}

\* rows the store may hold before the first invocation
SeedRow ==
    [id |-> 0, campaign_id |-> 1, scrape_type_id |-> 1,
     scrape_date |-> [date |-> Day1, time |-> Noon], keyword |-> Str("kwA"),
     product_id |-> "id1", title |-> "t1", link |-> "l1", position |-> {1}]

InitialStores == {{}, {SeedRow}}

(***************************************************************************)
(* State                                                                   *)
(***************************************************************************)
VARIABLES
    store,               \* committed rows of scrape_data
    nextId,              \* id the next committed row receives
    nextUuid,            \* number of uuid4() values generated so far
    workbook,            \* the Excel file: its sheets, as indexes into SheetPool
    pc,                  \* position of process_excel_file: idle, sheet, batch, done
    run,                 \* number of invocations started
    campaign_id, scrape_type_id, force_upload,   \* arguments of the invocation
    today,               \* what datetime.now() returns during the invocation
    sheets_to_process,   \* positions in workbook, lines 73-88
    sheet_idx,           \* position of the loop of line 93
    transformed_records, \* line 118
    i,                   \* loop variable of line 133
    total_inserted,      \* line 132
    stats,               \* line 56
    faults,              \* failures injected so far
    lastCall,            \* history: the latest batch_insert_scrape_data call
    log,                 \* history: what the current invocation has done
    prev,                \* history: the previous invocation
    df,                  \* a sheet handed to a transformer on its own
    out,                 \* what the transformer made of df
    conc                 \* two batch_insert_scrape_data calls in progress at once

vars == <<store, nextId, nextUuid, workbook, pc, run, campaign_id, scrape_type_id,
          force_upload, today, sheets_to_process, sheet_idx, transformed_records, i,
          total_inserted, stats, faults, lastCall, log, prev, df, out, conc>>

NoCall ==
    [n |-> 0, batch |-> <<>>, before |-> {}, raised |-> FALSE, checked |-> FALSE,
     message |-> "", executed |-> 0, inserted |-> {}]

EmptyLog ==
    [listed |-> TRUE, store_begin |-> {}, reads |-> <<>>, calls |-> <<>>,
     returned |-> <<>>, persisted |-> {}]

NoSheet == [name |-> "", columns |-> {}, rows |-> <<>>]
NoConc == [shared |-> FALSE, call |-> <<>>, events |-> <<>>]
NoResult == [raised |-> FALSE, records |-> <<>>]

NoStats == [keywords_processed |-> 0, rows_processed |-> 0, errors |-> <<>>]

NoPrev == [run |-> 0, today |-> NaN, faults |-> 0, errors |-> <<>>, store_end |-> {}]

Error(kind, sheet, message) == [kind |-> kind, sheet |-> sheet, message |-> message]

SheetAt(k) == SheetPool[workbook[k]]

Init ==
    /\ store \in InitialStores
    /\ nextId = 1
    /\ nextUuid = 0
    /\ workbook \in Workbooks
    /\ pc = "idle"
    /\ run = 0
    /\ campaign_id = 0
    /\ scrape_type_id = 0
    /\ force_upload = FALSE
    /\ today = NaN
    /\ sheets_to_process = <<>>
    /\ sheet_idx = 0
    /\ transformed_records = <<>>
    /\ i = 0
    /\ total_inserted = 0
    /\ stats = NoStats
    /\ faults = 0
    /\ lastCall = NoCall
    /\ log = EmptyLog
    /\ prev = NoPrev
    /\ df = NoSheet
    /\ out = NoResult
    /\ conc = NoConc

(***************************************************************************)
(* process_excel_file                                                       *)
(***************************************************************************)
\* one skip list for every scrape type
skip_sheets_uniform(stype) == {"Keywords", "Aggregated Results", "Error Logs", "Output"}

\* lines 75-88
skip_sheets(stype) ==
    IF stype = 1 THEN {"Keywords", "Aggregated Results", "Error Logs"}
    ELSE IF stype = 2 THEN {"Keywords", "Aggregated Results", "Error Logs", "Output"}
    ELSE {"Keywords", "Aggregated Results", "Error Logs"}

SheetsToProcess(wb, stype) ==
    SelectSeq([k \in 1..Len(wb) |-> k],
              LAMBDA k : SheetPool[wb[k]].name \notin skip_sheets(stype))

\* a handler that swallows the failure
OnFileError_silent(st, message) == st

\* lines 156-160: the handler of a failure outside the sheet loop
OnFileError(st, message) ==
    [st EXCEPT !.errors = Append(@, Error("Error processing file", "", message))]

\* lines 50-90 (and 156-160 when the workbook cannot be opened)
process_excel_file(c, s, f, now, listable) ==
    /\ run' = run + 1
    /\ campaign_id' = c
    /\ scrape_type_id' = s
    /\ force_upload' = f
    /\ today' = now
    /\ prev' = [run |-> run, today |-> today, faults |-> faults,
                errors |-> stats.errors, store_end |-> store]
    /\ log' = [EmptyLog EXCEPT !.listed = listable, !.store_begin = store]
    /\ lastCall' = NoCall
    /\ transformed_records' = <<>>
    /\ i' = 0
    /\ total_inserted' = 0
    /\ IF ~listable
         THEN /\ faults < MaxFaults
              /\ faults' = faults + 1
              /\ stats' = OnFileError(NoStats, "cannot open")
              /\ sheets_to_process' = <<>>
              /\ sheet_idx' = 0
              /\ pc' = "done"
         ELSE /\ faults' = faults
              /\ stats' = NoStats
              /\ sheets_to_process' = SheetsToProcess(workbook, s)
              /\ sheet_idx' = 1
              /\ pc' = IF SheetsToProcess(workbook, s) = <<>> THEN "done" ELSE "sheet"
    /\ UNCHANGED <<store, nextId, nextUuid, workbook, df, out, conc>>

\* the operator uploads the workbook
StartRun(c, s, f, now, listable) ==
    /\ pc = "idle"
    /\ process_excel_file(c, s, f, now, listable)

\* the operator uploads the same workbook again with the same selections, after
\* an invocation in which neither the file reader nor the database failed
Rerun(now, listable) ==
    /\ pc = "done"
    /\ run = 1
    /\ faults = 0
    /\ process_excel_file(campaign_id, scrape_type_id, force_upload, now, listable)

\* lines 106-115: the first non-blank Date cell, else now
SheetDate(sheet, now) ==
    LET filled == SelectSeq(sheet.rows, LAMBDA row : ~isna(row["Date"]))
    IN  IF "Date" \in sheet.columns /\ filled # <<>> /\ Truthy(filled[1]["Date"])
          THEN filled[1]["Date"]
          ELSE now

\* the loop of line 93 moves on to the next sheet, or line 154 returns
NextSheet ==
    IF sheet_idx = Len(sheets_to_process)
      THEN pc' = "done" /\ sheet_idx' = sheet_idx
      ELSE pc' = "sheet" /\ sheet_idx' = sheet_idx + 1

\* a loop body without the test of line 126
SheetFailure_unchecked(sheet, readable, result) ==
    IF ~readable THEN <<Error("Error processing sheet", sheet.name, "cannot read")>>
    ELSE IF sheet.rows = <<>> THEN <<Error("No data in sheet", sheet.name, "")>>
    ELSE IF result.raised
      THEN <<Error("Error processing sheet", sheet.name, "AttributeError")>>
    ELSE <<>>

\* the error string the loop body appends before it moves on to the next sheet
\* (lines 100-103, 126-129, 149-152), or <<>> when the sheet goes on to the batches
SheetFailure(sheet, readable, result) ==
    IF ~readable THEN <<Error("Error processing sheet", sheet.name, "cannot read")>>
    ELSE IF sheet.rows = <<>> THEN <<Error("No data in sheet", sheet.name, "")>>
    ELSE IF result.raised
      THEN <<Error("Error processing sheet", sheet.name, "AttributeError")>>
    ELSE IF result.records = <<>>
      THEN <<Error("No valid records found in sheet", sheet.name, "")>>
    ELSE <<>>

\* lines 94-129, with the handler of lines 149-152
ProcessSheet(readable) ==
    /\ pc = "sheet"
    /\ readable \/ faults < MaxFaults
    /\ faults' = IF readable THEN faults ELSE faults + 1
    /\ LET sheet == SheetAt(sheets_to_process[sheet_idx])
           sheet_date == SheetDate(sheet, today)
           result == detect_and_transform_data(sheet, Str(sheet.name), sheet_date,
                                               campaign_id, scrape_type_id, nextUuid)
           failure == SheetFailure(sheet, readable, result)
       IN  /\ log' = [log EXCEPT !.reads = Append(@, sheet.name)]
           /\ IF failure # <<>>
                THEN /\ stats' = [stats EXCEPT !.errors = @ \o failure]
                     /\ NextSheet
                     /\ UNCHANGED <<transformed_records, i, total_inserted, nextUuid>>
                ELSE /\ transformed_records' = result.records
                     /\ nextUuid' = IF DetectLayout(sheet.columns) = "ShoppingGrid"
                                      THEN nextUuid + Len(result.records) ELSE nextUuid
                     /\ i' = 0
                     /\ total_inserted' = 0
                     /\ pc' = "batch"
                     /\ UNCHANGED <<stats, sheet_idx>>
    /\ UNCHANGED <<store, nextId, workbook, run, campaign_id, scrape_type_id,
                   force_upload, today, sheets_to_process, lastCall, prev, df, out, conc>>

\* transformed_records[i:i+BATCH_SIZE]
Slice(records, from) ==
    SubSeq(records, from + 1,
           IF from + BATCH_SIZE < Len(records) THEN from + BATCH_SIZE ELSE Len(records))

\* a loop that a failed batch leaves
MoreBatches_break(from, records, raised) == ~raised /\ from + BATCH_SIZE < Len(records)

\* range(0, len(transformed_records), BATCH_SIZE) has a value after from; the
\* handler of lines 140-143 leaves the loop running whatever the call did
MoreBatches(from, records, raised) == from + BATCH_SIZE < Len(records)

\* a summary that counts a sheet only when one of its batches went through
FinishSheet_if_inserted(st, total, errors) ==
    [keywords_processed |-> st.keywords_processed + (IF total > 0 THEN 1 ELSE 0),
     rows_processed |-> st.rows_processed + total,
     errors |-> errors]

\* lines 145-147, after the batch loop: the sheet is counted
FinishSheet(st, total, errors) ==
    [keywords_processed |-> st.keywords_processed + 1,
     rows_processed |-> st.rows_processed + total,
     errors |-> errors]

\* one iteration of the loop of lines 133-143; after the last one, lines 145-147
InsertBatch(fault) ==
    /\ pc = "batch"
    /\ LET sheet == SheetAt(sheets_to_process[sheet_idx])
           batch == Slice(transformed_records, i)
           res == batch_insert_scrape_data(store, nextId, batch, force_upload, fault)
           inserted_now == IF res.raised THEN total_inserted
                           ELSE total_inserted + Len(batch)
           errors_now == IF res.raised
                           THEN Append(stats.errors,
                                       Error("Error inserting batch for sheet",
                                             sheet.name, res.message))
                           ELSE stats.errors
       IN  /\ fault \in Faults(Len(batch))
           /\ fault = NoFault \/ faults < MaxFaults
           /\ faults' = IF fault = NoFault THEN faults ELSE faults + 1
           /\ store' = res.rows
           /\ nextId' = res.nextId
           /\ lastCall' = [n |-> lastCall.n + 1, batch |-> batch, before |-> store,
                           raised |-> res.raised, checked |-> res.checked,
                           message |-> res.message, executed |-> res.executed,
                           inserted |-> res.inserted]
           /\ log' = [log EXCEPT
                        !.calls = Append(@, [sheet |-> sheet.name, from |-> i,
                                             of |-> Len(transformed_records),
                                             raised |-> res.raised]),
                        !.returned = IF res.raised THEN @ ELSE @ \o batch,
                        !.persisted = @ \cup res.inserted]
           /\ i' = i + BATCH_SIZE
           /\ total_inserted' = inserted_now
           /\ IF MoreBatches(i, transformed_records, res.raised)
                THEN /\ stats' = [stats EXCEPT !.errors = errors_now]
                     /\ UNCHANGED <<pc, sheet_idx>>
                ELSE /\ stats' = FinishSheet(stats, inserted_now, errors_now)
                     /\ NextSheet
    /\ UNCHANGED <<nextUuid, workbook, run, campaign_id, scrape_type_id, force_upload,
                   today, sheets_to_process, transformed_records, prev, df, out, conc>>

Next ==
    \/ \E sel \in Selections, f \in BOOLEAN, now \in Nows, listable \in BOOLEAN :
          StartRun(sel[1], sel[2], f, now, listable)
    \/ \E now \in Nows, listable \in BOOLEAN : Rerun(now, listable)
    \/ \E readable \in BOOLEAN : ProcessSheet(readable)
    \/ \E fault \in Faults(BATCH_SIZE) : InsertBatch(fault)

Spec == Init /\ [][Next]_vars

(***************************************************************************)
(* Sheet selection: workbooks that carry the sheets the skip lists name,   *)
(* in any order, uploaded once under each kind of scrape type.             *)
(***************************************************************************)
\* scrape types: Products Scrape, Shopping Tab Scrape, and another one
ScrapeTypes == {1, 2, 3}

\* the sheets these workbooks are made of: a grid, Output and the three
\* sheets every skip list names
SelectSheets ==
    {k \in 1..Len(SheetPool) :
        \/ k = 1
        \/ SheetPool[k].name \in {"Output", "Keywords", "Aggregated Results", "Error Logs"}}

\* up to MaxSheets distinct sheets, in every order
SelectWorkbooks ==
    UNION { {wb \in [1..n -> SelectSheets] : \A a, b \in 1..n : a # b => wb[a] # wb[b]} :
            n \in 1..MaxSheets }

InitSelect ==
    /\ store = {}
    /\ nextId = 1
    /\ nextUuid = 0
    /\ workbook \in SelectWorkbooks
    /\ pc = "idle"
    /\ run = 0
    /\ campaign_id = 0
    /\ scrape_type_id = 0
    /\ force_upload = FALSE
    /\ today = NaN
    /\ sheets_to_process = <<>>
    /\ sheet_idx = 0
    /\ transformed_records = <<>>
    /\ i = 0
    /\ total_inserted = 0
    /\ stats = NoStats
    /\ faults = 0
    /\ lastCall = NoCall
    /\ log = EmptyLog
    /\ prev = NoPrev
    /\ df = NoSheet
    /\ out = NoResult
    /\ conc = NoConc

NextSelect ==
    \/ \E s \in ScrapeTypes : StartRun(1, s, FALSE, Dt(Day1, Noon), TRUE)
    \/ ProcessSheet(TRUE)
    \/ InsertBatch(NoFault)

SpecSelect == InitSelect /\ [][NextSelect]_vars

(***************************************************************************)
(* Two invocations at once: each is inside one batch_insert_scrape_data    *)
(* call on the same table.  The calls are either made by two processes,    *)
(* each with a connection of its own, or by two sessions of one Streamlit  *)
(* server, which share the connection init_connection caches.              *)
(***************************************************************************)
Calls == {1, 2}

\* a record an invocation submits
ConcRecord(product_id, title, link) ==
    [campaign_id |-> 1, scrape_type_id |-> 1,
     scrape_date |-> [date |-> Day1, time |-> Noon], keyword |-> Str("kwA"),
     product_id |-> product_id, title |-> title, link |-> link, position |-> {}]

\* the batches a call may carry: the first two share the product identity, the
\* first and the third the title-link identity, the fourth shares neither
ConcBatches ==
    { << ConcRecord("id5", "t5", "l5") >>,
      << ConcRecord("id5", "t6", "l6") >>,
      << ConcRecord("id6", "t5", "l5") >>,
      << ConcRecord("id7", "t7", "l7") >> }

\* a transaction that reads the rows other transactions have not committed
Visible_uncommitted(committed, call, p, shared) ==
    committed \cup UNION {call[q].pending : q \in Calls}

\* the rows a statement of call p sees: the committed rows and the rows of its
\* own transaction, which on a shared connection is the other call's as well
Visible(committed, call, p, shared) ==
    committed \cup call[p].pending \cup
        (IF shared THEN UNION {call[q].pending : q \in Calls} ELSE {})

InitConc ==
    /\ store \in InitialStores
    /\ nextId = 1
    /\ conc \in {[shared |-> sh,
                  call |-> [q \in Calls |->
                              [pc |-> "probe", batch |-> bs[q], force_upload |-> FALSE,
                               records_to_insert |-> <<>>, pending |-> {}]],
                  events |-> <<>>] :
                    sh \in BOOLEAN, bs \in [Calls -> ConcBatches]}
    /\ pc = "conc"
    /\ nextUuid = 0 /\ workbook = <<>> /\ run = 0
    /\ campaign_id = 1 /\ scrape_type_id = 1 /\ force_upload = FALSE /\ today = NaN
    /\ sheets_to_process = <<>> /\ sheet_idx = 0 /\ transformed_records = <<>>
    /\ i = 0 /\ total_inserted = 0 /\ stats = NoStats /\ faults = 0
    /\ lastCall = NoCall /\ log = EmptyLog /\ prev = NoPrev
    /\ df = NoSheet /\ out = NoResult

ConcUnchanged ==
    UNCHANGED <<nextUuid, workbook, pc, run, campaign_id, scrape_type_id, force_upload,
                today, sheets_to_process, sheet_idx, transformed_records, i,
                total_inserted, stats, faults, lastCall, log, prev, df, out>>

\* lines 88-101: the existence probe of call p
Probe(p) ==
    /\ pc = "conc" /\ conc.call[p].pc = "probe"
    /\ LET c == conc.call[p]
           force == EffectiveForce(Visible(store, conc.call, p, conc.shared),
                                   c.batch, c.force_upload)
       IN  conc' = [conc EXCEPT
                      !.call[p].force_upload = force,
                      !.call[p].records_to_insert = IF force THEN c.batch ELSE <<>>,
                      !.call[p].pc = IF force THEN "insert" ELSE "fetch",
                      !.events = Append(@, <<p, "probe">>)]
    /\ UNCHANGED <<store, nextId>>
    /\ ConcUnchanged

\* lines 104-220: the fetch of call p and the records it keeps
Fetch(p) ==
    /\ pc = "conc" /\ conc.call[p].pc = "fetch"
    /\ conc' = [conc EXCEPT
                   !.call[p].records_to_insert =
                       RecordsToInsert(Visible(store, conc.call, p, conc.shared),
                                       conc.call[p].batch, FALSE),
                   !.call[p].pc = "insert",
                   !.events = Append(@, <<p, "fetch">>)]
    /\ UNCHANGED <<store, nextId>>
    /\ ConcUnchanged

\* lines 223-238: the INSERT statements of call p
Inserts(p) ==
    /\ pc = "conc" /\ conc.call[p].pc = "insert"
    /\ LET todo == conc.call[p].records_to_insert
       IN  /\ conc' = [conc EXCEPT
                          !.call[p].pending = InsertedRows(todo, nextId, Len(todo)),
                          !.call[p].pc = "commit",
                          !.events = Append(@, <<p, "insert">>)]
           /\ nextId' = nextId + Len(todo)
    /\ UNCHANGED store
    /\ ConcUnchanged

\* line 240: conn.commit() of call p; on a shared connection it commits what
\* the other call has inserted so far as well
CommitCall(p) ==
    /\ pc = "conc" /\ conc.call[p].pc = "commit"
    /\ LET mine == IF conc.shared THEN Calls ELSE {p}
       IN  /\ store' = Commit(store, UNION {conc.call[q].pending : q \in mine})
           /\ conc' = [conc EXCEPT
                          !.call = [q \in Calls |->
                                      [@[q] EXCEPT
                                         !.pending = IF q \in mine THEN {} ELSE @,
                                         !.pc = IF q = p THEN "done" ELSE @]],
                          !.events = Append(@, <<p, "commit">>)]
    /\ UNCHANGED nextId
    /\ ConcUnchanged

NextConc == \E p \in Calls : Probe(p) \/ Fetch(p) \/ Inserts(p) \/ CommitCall(p)

SpecConc == InitConc /\ [][NextConc]_vars

(***************************************************************************)
(* A transformer on its own: a sheet goes in, records come out.            *)
(***************************************************************************)
\* column sets of grid sheets: two slots, a slot without its Link column, a
\* slot with a Query column, and the last slots a row can carry
GridColumnSets ==
    { {P1T, P1L, P2T, P2L},
      {P1T, P2T, P2L},
      {"Query", P1T, P1L},
      {P1T, P1L, SlotName(NumSlots) \o "Title", SlotName(NumSlots) \o "Link"},
      {SlotName(NumSlots - 1) \o "Title", SlotName(NumSlots - 1) \o "Link",
       SlotName(NumSlots) \o "Title", SlotName(NumSlots) \o "Link"} }

\* every sheet of 1..MaxRows rows over one of the column sets, each cell blank or not
GridSheets ==
    UNION { UNION { { Sheet("kw", columns, rows) :
                        rows \in [1..n -> [columns -> {NaN, Str("x")}]] } :
                    n \in 1..MaxRows } :
            columns \in GridColumnSets }

InitGrid ==
    /\ df \in GridSheets
    /\ out = NoResult
    /\ pc = "df"
    /\ store = {} /\ nextId = 1 /\ nextUuid = 0 /\ workbook = <<>> /\ run = 0
    /\ campaign_id = 1 /\ scrape_type_id = 1 /\ force_upload = FALSE /\ today = NaN
    /\ sheets_to_process = <<>> /\ sheet_idx = 0 /\ transformed_records = <<>>
    /\ i = 0 /\ total_inserted = 0 /\ stats = NoStats /\ faults = 0
    /\ lastCall = NoCall /\ log = EmptyLog /\ prev = NoPrev /\ conc = NoConc

\* detect_and_transform_data(df, keyword, scrape_date, campaign_id, scrape_type_id)
Transform(now) ==
    /\ pc = "df"
    /\ today' = now
    /\ out' = detect_and_transform_data(df, Str(df.name), SheetDate(df, now),
                                        campaign_id, scrape_type_id, nextUuid)
    /\ nextUuid' = nextUuid + Len(out'.records)
    /\ pc' = "out"
    /\ UNCHANGED <<store, nextId, workbook, run, campaign_id, scrape_type_id,
                   force_upload, sheets_to_process, sheet_idx, transformed_records, i,
                   total_inserted, stats, faults, lastCall, log, prev, df, conc>>

NextGrid == \E now \in Nows : Transform(now)

SpecGrid == InitGrid /\ [][NextGrid]_vars

\* the state in which a sheet of the given set is about to be transformed
InitTransformer(sheets) ==
    /\ df \in sheets
    /\ out = NoResult
    /\ pc = "df"
    /\ store = {} /\ nextId = 1 /\ nextUuid = 0 /\ workbook = <<>> /\ run = 0
    /\ campaign_id = 1 /\ scrape_type_id = 1 /\ force_upload = FALSE /\ today = NaN
    /\ sheets_to_process = <<>> /\ sheet_idx = 0 /\ transformed_records = <<>>
    /\ i = 0 /\ total_inserted = 0 /\ stats = NoStats /\ faults = 0
    /\ lastCall = NoCall /\ log = EmptyLog /\ prev = NoPrev /\ conc = NoConc

(***************************************************************************)
(* The detector on its own: sheets that differ in their column names.      *)
(***************************************************************************)
\* column names the detector may meet
DetectColumns ==
    {"id", "title", "link", "position", P1T, P2L,
     "ProductX_Title", "Product_Name", "Page_Title", "foo"}

\* one sheet per set of column names, with one row that is filled throughout
DetectSheets ==
    { Sheet("kw", columns, << [col \in columns |-> Str("v")] >>) :
        columns \in SUBSET DetectColumns }

InitDetect == InitTransformer(DetectSheets)

SpecDetect == InitDetect /\ [][NextGrid]_vars

(***************************************************************************)
(* The product transformer on its own: sheets of one product per row.      *)
(***************************************************************************)
\* values a cell of is_carousel or has_product_page may hold
BoolCells ==
    {NaN, Bool(TRUE), Bool(FALSE), Num(0), Num(2)} \cup
    {Str(x) : x \in {"true", "TRUE", " Yes ", "1", "1.0", "No", "0.0", "maybe"}}

\* values a cell of a column may hold
ProductCells(col) ==
    CASE col = "id" -> {NaN, Str("id1")}
      [] col = "title" -> {NaN, Str("t1")}
      [] col = "position" -> {Num(1)}
      [] col = "Date" -> {NaN, Str("garbage"), Dt(Day2, Midnight)}
      [] col \in {"is_carousel", "has_product_page"} -> BoolCells
      [] OTHER -> {Str("v")}

\* every sheet of 1..MaxRows rows over the columns; the cells of the columns in
\* fixed hold one value in every row
SheetsOver(columns, fixed) ==
    UNION { { Sheet("kw", columns, rows) :
                rows \in [1..n -> {row \in [columns -> UNION {ProductCells(col) : col \in columns}] :
                                    \A col \in columns :
                                        /\ row[col] \in ProductCells(col)
                                        /\ col \in fixed => notna(row[col])}] } :
            n \in 1..MaxRows }

ProductSheets ==
    SheetsOver({"position", "title", "id"}, {}) \cup
    SheetsOver({"position", "title", "id", "Date"}, {}) \cup
    SheetsOver({"id", "title", "link", "is_carousel"}, {"id", "title"}) \cup
    SheetsOver({"id", "title", "link", "has_product_page"}, {"id", "title"})

InitProduct == InitTransformer(ProductSheets)

SpecProduct == InitProduct /\ [][NextGrid]_vars

(***************************************************************************)
(* Properties                                                              *)
(***************************************************************************)
\* the two identity keys of a record or row, written out field by field
SameProductIdentity(a, b) ==
    /\ a.campaign_id = b.campaign_id
    /\ a.scrape_type_id = b.scrape_type_id
    /\ a.scrape_date.date = b.scrape_date.date
    /\ a.keyword = b.keyword
    /\ a.product_id = b.product_id

SameTitleLinkIdentity(a, b) ==
    /\ a.campaign_id = b.campaign_id
    /\ a.scrape_type_id = b.scrape_type_id
    /\ a.scrape_date.date = b.scrape_date.date
    /\ a.keyword = b.keyword
    /\ a.title = b.title
    /\ a.link = b.link

NoSharedIdentity(rows) ==
    \A a, b \in rows :
        a # b => ~SameProductIdentity(a, b) /\ ~SameTitleLinkIdentity(a, b)

\* the record is among the rows
PersistedIn(record, rows) == \E r \in rows : r = StoredRow(record, r.id)

\* C1: with force_upload = FALSE in every invocation so far, and a store that
\* began without two rows of one identity, no two rows of the store share the
\* product identity or the title-link identity.
C1_StoreInvariant == ~force_upload => NoSharedIdentity(store)

\* C2: in a call in which duplicate detection ran and which returned, a record
\* of the batch was skipped iff a row persisted before the call has its product
\* identity or its title-link identity; every other record was inserted.
C2_DuplicateDecision ==
    (lastCall.n > 0 /\ lastCall.checked /\ ~lastCall.raised) =>
        \A j \in 1..Len(lastCall.batch) :
            LET record == lastCall.batch[j]
            IN  ~PersistedIn(record, lastCall.inserted) <=>
                    \E r \in lastCall.before :
                        SameProductIdentity(record, r) \/ SameTitleLinkIdentity(record, r)

\* a call with detection that skipped a record on its product identity although
\* no persisted row has its title and link
C2_Witness ==
    /\ lastCall.n > 0 /\ lastCall.checked /\ ~lastCall.raised
    /\ \E j \in 1..Len(lastCall.batch) :
          /\ \E r \in lastCall.before : SameProductIdentity(lastCall.batch[j], r)
          /\ \A r \in lastCall.before : ~SameTitleLinkIdentity(lastCall.batch[j], r)
          /\ ~PersistedIn(lastCall.batch[j], store)

\* the first invocation met no failure, and both ran on the same day
CleanRerun ==
    /\ run = 2 /\ pc = "done" /\ ~force_upload
    /\ log.listed
    /\ prev.faults = 0
    /\ prev.today.d = today.d

\* C3: after a second invocation on the same workbook, campaign and scrape type
\* with force_upload = FALSE, the first having met no failure and both resolving
\* the same dates, the store is what the first invocation left.
C3_RerunAddsNothing == CleanRerun => store = prev.store_end

\* a re-run of a grid sheet: detection ran on records with fresh product ids
C3_Witness ==
    /\ CleanRerun
    /\ store = prev.store_end
    /\ lastCall.n > 0 /\ lastCall.checked /\ ~lastCall.raised
    /\ lastCall.batch[1].product_id = uuid4(nextUuid - Len(transformed_records) + 1)
    /\ \E r \in store : r.product_id = uuid4(1)

\* C4: the second invocation, after a first one that persisted every record and
\* returned no error, returns rows_processed = 0 and no errors.
C4_RerunSummary ==
    (CleanRerun /\ faults = 0 /\ prev.errors = <<>>) =>
        stats.rows_processed = 0 /\ stats.errors = <<>>

\* C5: a call with force_upload = FALSE on a campaign without rows skips
\* detection and, unless a statement fails, inserts every record of the batch.
C5_FreshCampaign ==
    (/\ lastCall.n > 0 /\ ~force_upload /\ ~lastCall.raised
     /\ \A r \in lastCall.before : r.campaign_id # lastCall.batch[1].campaign_id) =>
        /\ ~lastCall.checked
        /\ Cardinality(lastCall.inserted) = Len(lastCall.batch)
        /\ \A j \in 1..Len(lastCall.batch) : PersistedIn(lastCall.batch[j], store)
        /\ store = lastCall.before \cup lastCall.inserted

\* a fresh campaign in a store that holds another campaign's rows
C5_Witness ==
    /\ lastCall.n = 1 /\ ~force_upload /\ ~lastCall.raised
    /\ lastCall.before # {}
    /\ \A r \in lastCall.before : r.campaign_id # lastCall.batch[1].campaign_id
    /\ Cardinality(lastCall.inserted) = BATCH_SIZE

\* C6: a call that raises leaves the store as it was, and the orchestrator adds
\* one batch error with the exception's message.
C6_BatchAtomicity ==
    [][(lastCall'.n = lastCall.n + 1 /\ lastCall'.raised) =>
          /\ store' = store
          /\ stats'.errors =
                Append(stats.errors,
                       Error("Error inserting batch for sheet",
                             SheetAt(sheets_to_process[sheet_idx]).name,
                             lastCall'.message))]_vars

\* an INSERT failed after an earlier INSERT of the same call had gone through
C6_Witness ==
    /\ lastCall.n > 0 /\ lastCall.raised /\ lastCall.executed >= 1
    /\ lastCall.message = "insert failed"
    /\ store = lastCall.before

\* number of calls of the invocation that raised
RaisedCalls == Cardinality({k \in 1..Len(log.calls) : log.calls[k].raised})

\* C7: an invocation that listed its sheets reads every sheet it selected, in
\* order, submits every batch of every sheet that yielded records, and has one
\* error per failed sheet and per failed batch.
C7_FailureIsolation ==
    (pc = "done" /\ run > 0 /\ log.listed) =>
        /\ log.reads = [k \in 1..Len(sheets_to_process) |->
                            SheetAt(sheets_to_process[k]).name]
        /\ \A k \in 1..Len(log.calls) :
              log.calls[k].from + BATCH_SIZE < log.calls[k].of =>
                  /\ k < Len(log.calls)
                  /\ log.calls[k + 1].sheet = log.calls[k].sheet
                  /\ log.calls[k + 1].from = log.calls[k].from + BATCH_SIZE
        /\ Len(stats.errors) =
              (Len(log.reads) - stats.keywords_processed) + RaisedCalls

\* a failed batch was followed by a batch of the same sheet and by another sheet
C7_Witness ==
    /\ pc = "done" /\ log.listed
    /\ Len(log.calls) >= 2 /\ log.calls[1].raised
    /\ log.calls[2].sheet = log.calls[1].sheet
    /\ Len(log.reads) = 2
    /\ log.reads[1] = log.calls[1].sheet

\* C8: an invocation that cannot list the sheets ends at once, reads no sheet,
\* leaves the store alone and returns zero counts and one error.
C8_FatalEnumeration ==
    (run > 0 /\ ~log.listed) =>
        /\ pc = "done"
        /\ log.reads = <<>> /\ log.calls = <<>>
        /\ store = log.store_begin
        /\ stats.keywords_processed = 0
        /\ stats.rows_processed = 0
        /\ Len(stats.errors) = 1
        /\ stats.errors[1].kind = "Error processing file"

\* a second invocation that could not list the sheets, on a store the first filled
C8_Witness == run = 2 /\ ~log.listed /\ store # {} /\ pc = "done"

\* C9 as stated: after an invocation the store holds every record of every
\* batch whose call returned.
C9_EveryReturnedRecord ==
    pc = "done" => \A k \in 1..Len(log.returned) : PersistedIn(log.returned[k], store)

\* C9: no step removes or alters a committed row, and the store holds every row
\* a returned call reported as inserted.
C9_CommittedStay ==
    [][store \subseteq store' /\ log'.persisted \subseteq store']_vars

\* a call committed rows and a later call of the invocation was rolled back
C9_Witness ==
    /\ pc = "done"
    /\ log.persisted # {}
    /\ \E a, b \in 1..Len(log.calls) :
          a < b /\ ~log.calls[a].raised /\ log.calls[b].raised
    /\ log.persisted \subseteq store

\* rows of df in which both columns of slot n are present and hold a value
RowsFilling(n) ==
    {idx \in 1..Len(df.rows) :
        /\ (SlotName(n) \o "Title") \in df.columns
        /\ (SlotName(n) \o "Link") \in df.columns
        /\ df.rows[idx][SlotName(n) \o "Title"].k # "nan"
        /\ df.rows[idx][SlotName(n) \o "Link"].k # "nan"}

\* records of out with position n
RecordsAt(n) == {k \in 1..Len(out.records) : out.records[k].position = {n}}

\* C10: for every slot n in 1..15 the transformer emits one record with
\* position n per row in which Product<n>_Title and Product<n>_Link are both
\* present and non-blank, and none otherwise.
C10_GridEmission ==
    pc = "out" =>
        \A n \in 1..NumSlots : Cardinality(RecordsAt(n)) = Cardinality(RowsFilling(n))

\* the layout rule of C11: Product<N>_Title or Product<N>_Link with N an integer
GridNamed(columns) == \E col \in columns : col \in GridColumns

LayoutRule(columns) ==
    IF GridNamed(columns) THEN "ShoppingGrid"
    ELSE IF {"id", "title", "link"} \subseteq columns THEN "ProductStandard"
    ELSE IF {"position", "title", "id"} \subseteq columns /\ "link" \notin columns
      THEN "ProductPositionNoLink"
    ELSE "Unrecognized"

\* what the transformer of a layout makes of a sheet
TransformAs(layout, sheet, keyword, scrape_date, uuidBase) ==
    CASE layout = "ShoppingGrid" ->
            transform_shopping_grid_data(sheet, keyword, scrape_date,
                                         campaign_id, scrape_type_id, uuidBase)
      [] layout = "ProductStandard" ->
            transform_product_scraper_data(sheet, keyword, scrape_date,
                                           campaign_id, scrape_type_id)
      [] layout = "ProductPositionNoLink" ->
            transform_product_scraper_data(df_with_link(sheet), keyword, scrape_date,
                                           campaign_id, scrape_type_id)
      [] OTHER -> NoResult

\* C11: the detector handles a sheet as the one layout its column names select:
\* ShoppingGrid iff a column is named Product<N>_Title or Product<N>_Link with N
\* an integer, else ProductStandard iff id, title and link are columns, else
\* ProductPositionNoLink iff position, title and id are columns and link is
\* not, else Unrecognized; a column that starts with Product without an
\* integer N does not make a sheet a ShoppingGrid.
C11_LayoutDetection ==
    pc = "out" =>
        out = TransformAs(LayoutRule(df.columns), df, Str(df.name),
                          SheetDate(df, today), 0)

\* the rows of df with a value in both id and title, in order
RowsWithIdAndTitle ==
    SelectSeq([idx \in 1..Len(df.rows) |-> idx],
              LAMBDA idx : df.rows[idx]["id"].k # "nan" /\ df.rows[idx]["title"].k # "nan")

DegradedColumns(columns) ==
    {"position", "title", "id"} \subseteq columns /\ "link" \notin columns

CellOfRecord(k, col) == df.rows[ValidRows(df)[k]][col]

\* C18: for every non-blank cell v of is_carousel or has_product_page in a
\* ProductStandard row, the record's field is clean_to_bool(v): true or false
\* for the literals (case-insensitive, trimmed), native booleans unchanged,
\* numbers by zero/non-zero, and left out when clean_to_bool(v) is None.
C18_BoolNormalizer ==
    (pc = "out" /\ ~out.raised /\ {"id", "title", "link"} \subseteq df.columns) =>
        \A k \in 1..Len(out.records) :
            /\ ("is_carousel" \in df.columns /\ CellOfRecord(k, "is_carousel").k # "nan") =>
                  out.records[k].is_carousel =
                      clean_to_bool(CellOfRecord(k, "is_carousel"))
            /\ ("has_product_page" \in df.columns
                    /\ CellOfRecord(k, "has_product_page").k # "nan") =>
                  out.records[k].has_product_page =
                      clean_to_bool(CellOfRecord(k, "has_product_page"))

\* the row of df the k-th record of out was made from
RowOfRecord(k) == df.rows[GridHits(df, 1)[k][1]]

\* C16: every record of a grid row carries the row's Query cell as keyword when
\* the sheet has a Query column and the cell is not blank, and the sheet's
\* keyword in every other case, a blank Query cell included; the keyword is
\* always a non-blank string.
C16_GridKeyword ==
    (pc = "out" /\ ~out.raised) =>
        \A k \in 1..Len(out.records) :
            /\ out.records[k].keyword =
                  IF "Query" \in df.columns /\ RowOfRecord(k)["Query"].k # "nan"
                    THEN RowOfRecord(k)["Query"]
                    ELSE Str(df.name)
            /\ out.records[k].keyword.k = "str"
            /\ out.records[k].keyword.s # ""

\* every Date cell of df is blank or a string no accepted format matches
DatesUnparseable ==
    /\ "Date" \in df.columns
    /\ \A idx \in 1..Len(df.rows) :
          \/ df.rows[idx]["Date"].k = "nan"
          \/ /\ df.rows[idx]["Date"].k = "str"
             /\ strptime(df.rows[idx]["Date"].s, "%Y-%m-%d") = ""
             /\ strptime(df.rows[idx]["Date"].s, "%d/%m/%Y") = ""

\* C17: for a sheet whose Date cells are blank or unparseable strings the
\* transformer raises nothing and emits its records, one per valid row; when
\* every Date cell is blank the records carry the current time.
C17_DateFallback ==
    (pc = "out" /\ DatesUnparseable) =>
        /\ ~out.raised
        /\ Len(out.records) = Len(RowsWithIdAndTitle)
        /\ (\A idx \in 1..Len(df.rows) : df.rows[idx]["Date"].k = "nan") =>
              \A k \in 1..Len(out.records) :
                  out.records[k].scrape_date = [date |-> today.d, time |-> today.t]

\* positions in log.reads of the non-empty sheets whose columns match no layout
UnrecognizedReads ==
    {k \in 1..Len(log.reads) :
        /\ LayoutRule(SheetAt(sheets_to_process[k]).columns) = "Unrecognized"
        /\ SheetAt(sheets_to_process[k]).rows # <<>>}

\* positions in stats.errors of the entries that name the sheet
ErrorsNaming(name) == {e \in 1..Len(stats.errors) : stats.errors[e].sheet = name}

\* C13: a non-empty sheet whose columns match no layout transforms to the empty
\* sequence; the invocation has exactly one error that names it, has submitted
\* no batch for it and has not counted it in keywords_processed.
C13_UnrecognizedLayout ==
    /\ \A k \in UnrecognizedReads :
          LET sheet == SheetAt(sheets_to_process[k])
          IN  /\ detect_and_transform_data(sheet, Str(sheet.name), SheetDate(sheet, today),
                                            campaign_id, scrape_type_id, 0) = NoResult
              /\ Cardinality(ErrorsNaming(sheet.name)) = 1
              /\ \A c \in 1..Len(log.calls) : log.calls[c].sheet # sheet.name
    /\ stats.keywords_processed <= Len(log.reads) - Cardinality(UnrecognizedReads)

\* an invocation met a sheet of columns foo and bar after it had loaded a sheet
C13_Witness ==
    /\ pc = "done" /\ log.listed
    /\ UnrecognizedReads = {2}
    /\ stats.keywords_processed = 1
    /\ Len(stats.errors) = 1
    /\ stats.errors[1] = Error("No valid records found in sheet", "kwG", "")

\* the selection rule of C14
Selected(name, stype) ==
    /\ name \notin {"Keywords", "Aggregated Results", "Error Logs"}
    /\ name = "Output" => stype # 2

\* the names of the workbook's sheets, in workbook order
SheetNames == [k \in 1..Len(workbook) |-> SheetAt(k).name]

\* C14: an invocation never reads or loads a sheet named Keywords, Aggregated
\* Results or Error Logs, nor Output under scrape type 2; when it ends it has
\* read every other sheet, Output under the other scrape types included,
\* exactly once and in workbook order.
C14_SheetSelection ==
    /\ \A k \in 1..Len(log.reads) : Selected(log.reads[k], scrape_type_id)
    /\ \A c \in 1..Len(log.calls) : Selected(log.calls[c].sheet, scrape_type_id)
    /\ (run > 0 /\ pc = "done" /\ log.listed) =>
          log.reads = SelectSeq(SheetNames, LAMBDA name : Selected(name, scrape_type_id))

\* under another scrape type than 1 and 2, a workbook that lists Output and
\* then Keywords: Output alone was read and loaded
C14_Witness ==
    /\ pc = "done" /\ scrape_type_id = 3
    /\ SheetNames = <<"Output", "Keywords">>
    /\ log.reads = <<"Output">>
    /\ Len(log.calls) = 1
    /\ store # {}

\* C19: in an invocation with force_upload = FALSE, a call made after the
\* invocation has committed a row does not take the fast path: it runs the
\* duplicate detection (or fails in its queries), the rows it compares with
\* include every row the invocation committed before, and it inserts no record
\* that has the identity of one of them.
C19_FastPathOnce ==
    (/\ lastCall.n > 0 /\ ~force_upload
     /\ (log.persisted \ lastCall.inserted) # {}) =>
        /\ lastCall.checked \/ lastCall.raised
        /\ (log.persisted \ lastCall.inserted) \subseteq lastCall.before
        /\ ~lastCall.raised =>
              \A j \in 1..Len(lastCall.batch) :
                  (\E r \in log.persisted \ lastCall.inserted :
                        \/ SameProductIdentity(lastCall.batch[j], r)
                        \/ SameTitleLinkIdentity(lastCall.batch[j], r)) =>
                      ~PersistedIn(lastCall.batch[j], lastCall.inserted)

\* on a campaign without rows the first batch of a sheet went in unchecked and
\* the second batch of the same sheet was checked and lost a record to it
C19_Witness ==
    /\ ~force_upload
    /\ \A r \in log.store_begin : r.campaign_id # campaign_id
    /\ lastCall.n = 2 /\ lastCall.checked /\ ~lastCall.raised
    /\ Len(log.calls) = 2 /\ log.calls[1].sheet = log.calls[2].sheet
    /\ log.persisted # {}
    /\ \E j \in 1..Len(lastCall.batch) : ~PersistedIn(lastCall.batch[j], store)

\* positions in stats.errors of the entries that are not batch errors
SheetErrors ==
    {e \in 1..Len(stats.errors) : stats.errors[e].kind # "Error inserting batch for sheet"}

\* the sheets of the workbook for which a batch was submitted
SheetsWithCalls == {log.calls[c].sheet : c \in 1..Len(log.calls)}

\* C20: at the end of an invocation that listed its sheets every non-skipped
\* sheet is accounted for once: by keywords_processed when it yielded records,
\* whatever became of its batches, or else by one sheet-level error that names
\* it; keywords_processed plus the number of sheet-level errors is the number
\* of non-skipped sheets.
C20_SheetAccounting ==
    (run > 0 /\ pc = "done" /\ log.listed) =>
        LET kept == SelectSeq(SheetNames, LAMBDA name : Selected(name, scrape_type_id))
        IN  /\ stats.keywords_processed + Cardinality(SheetErrors) = Len(kept)
            /\ stats.keywords_processed = Cardinality(SheetsWithCalls)
            /\ \A k \in 1..Len(kept) :
                  Cardinality(ErrorsNaming(kept[k]) \cap SheetErrors) =
                      IF kept[k] \in SheetsWithCalls THEN 0 ELSE 1

\* a sheet whose only batch failed is counted, next to a sheet that gave an error
C20_Witness ==
    /\ pc = "done" /\ log.listed
    /\ Len(sheets_to_process) = 2
    /\ Len(log.calls) = 1 /\ log.calls[1].raised
    /\ stats.keywords_processed = 1
    /\ stats.rows_processed = 0
    /\ Cardinality(SheetErrors) = 1
    /\ Len(stats.errors) = 2

\* positions in conc.events of the steps of call p with one of the names
EventsOf(p, names) ==
    {k \in 1..Len(conc.events) : conc.events[k][1] = p /\ conc.events[k][2] \in names}

\* both calls carry a record of one identity
ConcOverlap ==
    \/ SameProductIdentity(conc.call[1].batch[1], conc.call[2].batch[1])
    \/ SameTitleLinkIdentity(conc.call[1].batch[1], conc.call[2].batch[1])

\* each call finished its probe and fetch before the other call committed and,
\* on a shared connection, before the other call inserted
ChecksBeforeCommits ==
    \A p, q \in Calls :
        \A k \in EventsOf(p, {"probe", "fetch"}) :
            \A m \in EventsOf(q, IF conc.shared THEN {"insert", "commit"} ELSE {"commit"}) :
                k < m

\* C15: when two calls with force_upload = FALSE that carry a record of one
\* identity both finish their probe and fetch before either commits, both
\* records are persisted and two rows of the store share an identity; and no
\* call that has a step left is ever kept from taking it by the other call.
C15_CheckThenCommitRace ==
    pc = "conc" =>
        /\ (/\ \A p \in Calls : conc.call[p].pc = "done"
            /\ ConcOverlap
            /\ ChecksBeforeCommits) =>
               /\ \A p \in Calls : PersistedIn(conc.call[p].batch[1], store)
               /\ ~NoSharedIdentity(store)
        /\ \A p \in Calls :
              conc.call[p].pc # "done" =>
                  ENABLED (Probe(p) \/ Fetch(p) \/ Inserts(p) \/ CommitCall(p))

\* both calls ran their probe and their fetch on a campaign that has rows, then
\* both inserted and committed the record of one product identity
C15_Witness ==
    /\ pc = "conc"
    /\ \A p \in Calls : conc.call[p].pc = "done"
    /\ SameProductIdentity(conc.call[1].batch[1], conc.call[2].batch[1])
    /\ Len(conc.events) = 8
    /\ SubSeq(conc.events, 1, 4) =
          << <<1, "probe">>, <<1, "fetch">>, <<2, "probe">>, <<2, "fetch">> >>
    /\ \A p \in Calls : PersistedIn(conc.call[p].batch[1], store)
    /\ ~NoSharedIdentity(store)

====
